---- MODULE Spec2Model ----
(***************************************************************************)
(* RAFT rotor class (raft/raft_rotor.py): the Rotor object, its solver     *)
(* run, its control-gain setup and its two linearisation methods.          *)
(*                                                                         *)
(* Numbers.  The program computes in IEEE double precision.  The model     *)
(* computes in exact rational arithmetic extended with the three special   *)
(* values a float operation on finite operands can produce (+inf, -inf,    *)
(* nan); rounding and overflow of finite values are outside the model.     *)
(* A number is a record [k, n, d]: k = "fin" with the fraction n/d in      *)
(* lowest terms and d > 0, k = "inf" with n the sign, or k = "nan".        *)
(*                                                                         *)
(* Units.  Torque quantities (I_drivetrain and the dQ/d. tables) are       *)
(* written in units of 1e8, so that 1.6e8 is 8/5.  The transfer function   *)
(* C(w) is a ratio of torque quantities and T(w) contains them only        *)
(* through C(w), so the returned a(w), b(w) are the same in either unit.   *)
(***************************************************************************)
EXTENDS Integers, Sequences, FiniteSets, TLC

VARIABLES Uhub, Omega_rpm, pitch_deg, I_drivetrain, rot_from_weis,
          kp_0, ki_0, k_float, V, w, outputs, J, ret

vars == <<Uhub, Omega_rpm, pitch_deg, I_drivetrain, rot_from_weis,
          kp_0, ki_0, k_float, V, w, outputs, J, ret>>

(***************************************************************************)
(* Extended rational arithmetic (the float operators of the program)       *)
(***************************************************************************)
Abs(x) == IF x < 0 THEN -x ELSE x

RECURSIVE Gcd(_, _)
Gcd(a, b) == IF b = 0 THEN a ELSE Gcd(b, a % b)

\* the fraction n/d (d # 0) in lowest terms
Q(n, d) ==
    LET g == Gcd(Abs(n), Abs(d))
        s == IF d < 0 THEN -1 ELSE 1
    IN  [k |-> "fin", n |-> (s * n) \div g, d |-> (s * d) \div g]

R(n) == Q(n, 1)

NaN == [k |-> "nan", n |-> 0, d |-> 1]
Inf(s) == [k |-> "inf", n |-> s, d |-> 1]

Sign(x) == IF x.n > 0 THEN 1 ELSE IF x.n < 0 THEN -1 ELSE 0
IsFinite(x) == x.k = "fin"
IsZero(x) == x.k = "fin" /\ x.n = 0

fneg(x) == [x EXCEPT !.n = -x.n]

fabs(x) == [x EXCEPT !.n = Abs(x.n)]

fadd(x, y) ==
    IF x.k = "nan" \/ y.k = "nan" THEN NaN
    ELSE IF x.k = "inf" /\ y.k = "inf" THEN (IF x.n = y.n THEN x ELSE NaN)
    ELSE IF x.k = "inf" THEN x
    ELSE IF y.k = "inf" THEN y
    ELSE LET g == Gcd(x.d, y.d)
         IN  Q(x.n * (y.d \div g) + y.n * (x.d \div g), (x.d \div g) * y.d)

fsub(x, y) == fadd(x, fneg(y))

\* x < y and x >= y on finite numbers
flt(x, y) == fsub(x, y).n < 0
fge(x, y) == ~flt(x, y)

fmul(x, y) ==
    IF x.k = "nan" \/ y.k = "nan" THEN NaN
    ELSE IF x.k = "inf" \/ y.k = "inf"
         THEN (IF Sign(x) * Sign(y) = 0 THEN NaN ELSE Inf(Sign(x) * Sign(y)))
    ELSE LET g1 == Gcd(Abs(x.n), y.d)
             g2 == Gcd(Abs(y.n), x.d)
         IN  Q((x.n \div g1) * (y.n \div g2), (x.d \div g2) * (y.d \div g1))

fdiv(x, y) ==
    IF x.k = "nan" \/ y.k = "nan" THEN NaN
    ELSE IF y.k = "inf" THEN (IF x.k = "inf" THEN NaN ELSE R(0))
    ELSE IF y.n = 0 THEN (IF Sign(x) = 0 THEN NaN ELSE Inf(Sign(x)))
    ELSE IF x.k = "inf" THEN Inf(Sign(x) * Sign(y))
    ELSE fmul(x, Q(y.d, y.n))

(***************************************************************************)
(* Complex numbers [re, im] with numpy's complex128 operators              *)
(***************************************************************************)
Cx(re, im) == [re |-> re, im |-> im]

\* a real operand promoted to complex
CxOfReal(x) == Cx(x, R(0))

\* the literal 1j
ImagUnit == Cx(R(0), R(1))

cadd(a, b) == Cx(fadd(a.re, b.re), fadd(a.im, b.im))
csub(a, b) == Cx(fsub(a.re, b.re), fsub(a.im, b.im))

cmul(a, b) ==
    Cx(fsub(fmul(a.re, b.re), fmul(a.im, b.im)),
       fadd(fmul(a.re, b.im), fmul(a.im, b.re)))

\* complex128 division: Smith's algorithm; a zero divisor divides each part
\* by |b.re| = 0 and so yields inf or nan parts, it does not raise
cdiv(a, b) ==
    IF fge(fabs(b.re), fabs(b.im))
    THEN IF IsZero(b.re) /\ IsZero(b.im)
         THEN Cx(fdiv(a.re, fabs(b.re)), fdiv(a.im, fabs(b.re)))
         ELSE LET rat == fdiv(b.im, b.re)
                  scl == fdiv(R(1), fadd(b.re, fmul(b.im, rat)))
              IN  Cx(fmul(fadd(a.re, fmul(a.im, rat)), scl),
                     fmul(fsub(a.im, fmul(a.re, rat)), scl))
    ELSE LET rat == fdiv(b.re, b.im)
             scl == fdiv(R(1), fadd(b.im, fmul(b.re, rat)))
         IN  Cx(fmul(fadd(fmul(a.re, rat), a.im), scl),
                fmul(fsub(fmul(a.im, rat), a.re), scl))

(***************************************************************************)
(* Global constants and the constants of the two methods                   *)
(***************************************************************************)
rad2deg == Q(572958, 10000)
rpm2radps == Q(1047, 10000)

\* Uinf, the wind speed calcAeroContributions interpolates at
Uinf == R(14)
Hhub == R(150)

T10 == "IEA-10-198-RWT"
T15 == "IEA-15-240-RWT"

\* the drivetrain inertias 1.6e8 and 3.2e8, in units of 1e8
I_drivetrain_10 == Q(16, 10)
I_drivetrain_15 == Q(32, 10)

(***************************************************************************)
(* Arrays.  An ndarray is a sequence of numbers; a field that may hold     *)
(* either an ndarray or a Python float is tagged with its kind.            *)
(***************************************************************************)
NdArray(s) == [kind |-> "ndarray", v |-> s]
PyFloat(x) == [kind |-> "float", v |-> <<x>>]

zeros_like(a) == [i \in 1..Len(a) |-> R(0)]

Scale(a, c) == [i \in 1..Len(a) |-> fmul(a[i], c)]
Unscale(a, c) == [i \in 1..Len(a) |-> fdiv(a[i], c)]

\* the largest index j with xp[j] <= x, for xp[1] <= x
RECURSIVE SearchSorted(_, _, _)
SearchSorted(x, xp, j) ==
    IF j < Len(xp) /\ fge(x, xp[j + 1]) THEN SearchSorted(x, xp, j + 1) ELSE j

\* np.interp(x, xp, fp, left, right) for a scalar x and increasing xp
interp_lr(x, xp, fp, left, right) ==
    IF fp.kind # "ndarray"
    THEN [raised |-> "ValueError", v |-> NaN]    \* object of too small depth
    ELSE IF Len(xp) = 0 \/ Len(fp.v) # Len(xp)
    THEN [raised |-> "ValueError", v |-> NaN]    \* fp and xp differ in length
    ELSE IF flt(x, xp[1]) THEN [raised |-> "", v |-> left]
    ELSE IF flt(xp[Len(xp)], x) THEN [raised |-> "", v |-> right]
    ELSE LET j == SearchSorted(x, xp, 1)
         IN  IF j = Len(xp) \/ xp[j] = x
             THEN [raised |-> "", v |-> fp.v[j]]
             ELSE LET slope == fdiv(fsub(fp.v[j + 1], fp.v[j]),
                                    fsub(xp[j + 1], xp[j]))
                  IN  [raised |-> "",
                       v |-> fadd(fmul(slope, fsub(x, xp[j])), fp.v[j])]

\* np.interp(x, xp, fp): outside xp the end values of fp
interp(x, xp, fp) ==
    interp_lr(x, xp, fp,
              IF fp.kind = "ndarray" /\ Len(fp.v) > 0 THEN fp.v[1] ELSE NaN,
              IF fp.kind = "ndarray" /\ Len(fp.v) > 0 THEN fp.v[Len(fp.v)] ELSE NaN)

\* np.arange(start, stop, step), cut after its first cap entries
arange(start, stop, step, cap) ==
    LET span == fdiv(fsub(stop, start), step)
        full == IF span.n <= 0 THEN 0 ELSE (span.n + span.d - 1) \div span.d
        len == IF full < cap THEN full ELSE cap
    IN  [i \in 1..len |-> fadd(start, fmul(R(i - 1), step))]

(***************************************************************************)
(* Bounds of the model                                                     *)
(***************************************************************************)
\* the frequency grid keeps the first MaxGrid entries of np.arange(.05, 3, .05)
MaxGrid == 2
\* calcAeroContributions is called with nw in 0..MaxNw
MaxNw == 2

(***************************************************************************)
(* What the program reads from outside: the WEIS yaml of the 15 MW rotor   *)
(* and the results of CCBlade.evaluate                                     *)
(***************************************************************************)
Take(s, n) == SubSeq(s, 1, n)

\* contents of designs/rotors/IEA-15MW_WEIS.yaml: the operating schedule
\* (v in m/s, omega_op in rad/s, pitch_op in rad) and the gain schedule
\* (GS_Angles in rad)
WeisYamls ==
    { [wt_ops |-> [v |-> <<R(10), R(14), R(18)>>,
                   omega_op |-> <<Q(5235, 10000), Q(8376, 10000), Q(8376, 10000)>>,
                   pitch_op |-> po],
       pitch_control |-> [GS_Angles |-> <<Q(1, 20), Q(1, 10), Q(1, 5)>>,
                          GS_Kp |-> gs[1],
                          GS_Ki |-> gs[2]]] :
      po \in { <<R(0), Q(1, 10), Q(3, 20)>>, <<Q(1, 20), Q(1, 5), Q(3, 10)>> },
      gs \in { << <<Q(-3, 50), Q(-6, 50), Q(-12, 50)>>,
                  <<Q(-3, 6250), Q(-6, 6250), Q(-12, 6250)>> >> } }

\* results of CCBlade.evaluate at an n-point schedule: the loads used and the
\* diagonals of the derivative matrices used (dOmega per rpm, dpitch per deg)
SolverResultsWith(n, thrust_slopes, torque_speed_slopes) ==
    { [loads |-> [P |-> Take(<<R(1), R(2), R(3)>>, n),
                  CP |-> Take(<<Q(2, 5), Q(2, 5), Q(3, 10)>>, n)],
       dP |-> [dr |-> Take(<<R(0), R(0), R(0)>>, n)],
       dT |-> [dUinf |-> Take(tu, n),
               dOmega |-> Take(Scale(tom, rpm2radps), n),
               dpitch |-> Take(Unscale(<<Q(-50, 3), Q(-100, 3), R(-50)>>, rad2deg), n)],
       dQ |-> [dUinf |-> Take(qu, n),
               dOmega |-> Take(Scale(qom, rpm2radps), n),
               dpitch |-> Take(Unscale(<<Q(-50, 3), Q(-50, 3), Q(-100, 3)>>, rad2deg), n)]] :
      tu \in thrust_slopes,
      tom \in { <<R(0), R(0), R(0)>>, <<R(2), R(4), R(6)>> },
      qu \in { <<R(0), R(0), R(0)>>, <<R(1), R(2), R(3)>> },
      qom \in torque_speed_slopes }

SolverResults(n) ==
    SolverResultsWith(n, { <<R(500), R(600), R(700)>> }, { <<R(-1), R(-2), R(-3)>> })

\* the wind speeds the driver assigns to rr.V
SweepV == { R(4), R(12), R(14), R(24) }

\* an attribute that has not been assigned
NoAttr == [attr |-> FALSE, d |-> <<>>]
Attr(d) == [attr |-> TRUE, d |-> d]

(***************************************************************************)
(* Rotor.__init__                                                          *)
(***************************************************************************)
Rotor(turbine_string, yaml) ==
    /\ w = arange(Q(5, 100), R(3), Q(5, 100), MaxGrid)
    /\ V = R(14)
    /\ IF turbine_string = T10
       THEN /\ Uhub = <<R(14)>>
            /\ Omega_rpm = <<Q(956, 100)>>
            /\ pitch_deg = <<Q(1378, 100)>>
            /\ I_drivetrain = I_drivetrain_10
            /\ rot_from_weis = NoAttr
       ELSE /\ rot_from_weis = Attr(yaml)
            /\ Uhub = yaml.wt_ops.v
            /\ Omega_rpm = Unscale(yaml.wt_ops.omega_op, rpm2radps)
            /\ pitch_deg = Scale(yaml.wt_ops.pitch_op, rad2deg)
            /\ I_drivetrain = I_drivetrain_15
    /\ kp_0 = NdArray(zeros_like(Uhub))
    /\ ki_0 = NdArray(zeros_like(Uhub))
    /\ k_float = R(0)
    /\ outputs = NoAttr
    /\ J = NoAttr
    /\ ret = [op |-> "__init__", status |-> "returned"]

Init ==
    \/ \E yaml \in WeisYamls : Rotor(T15, yaml)
    \/ Rotor(T10, <<>>)

(***************************************************************************)
(* Rotor.runCCblade                                                        *)
(***************************************************************************)
runCCblade ==
    \E res \in SolverResults(Len(Uhub)) :
        /\ outputs' = Attr([key \in {"P", "CP"} |->
                              IF key = "P" THEN res.loads.P ELSE res.loads.CP])
        /\ J' = Attr([key \in { <<"P", "r">>,
                                <<"Q", "Uhub">>, <<"Q", "pitch_deg">>, <<"Q", "Omega_rpm">>,
                                <<"T", "Uhub">>, <<"T", "pitch_deg">>, <<"T", "Omega_rpm">> } |->
                CASE key = <<"P", "r">> -> res.dP.dr
                  [] key = <<"Q", "Uhub">> -> res.dQ.dUinf
                  [] key = <<"Q", "pitch_deg">> -> res.dQ.dpitch
                  [] key = <<"Q", "Omega_rpm">> -> res.dQ.dOmega
                  [] key = <<"T", "Uhub">> -> res.dT.dUinf
                  [] key = <<"T", "pitch_deg">> -> res.dT.dpitch
                  [] key = <<"T", "Omega_rpm">> -> res.dT.dOmega])
        /\ ret' = [op |-> "runCCblade", status |-> "returned"]
        /\ UNCHANGED <<Uhub, Omega_rpm, pitch_deg, I_drivetrain, rot_from_weis,
                       kp_0, ki_0, k_float, V, w>>

(***************************************************************************)
(* Rotor.setControlGains                                                   *)
(***************************************************************************)
\* mutant of interp_array_zero: outside xp the end values of fp (the default
\* of np.interp) instead of left=0, right=0
interp_array_clamped(x, xp, fp) ==
    [i \in 1..Len(x) |-> interp(x[i], xp, NdArray(fp)).v]

\* np.interp(x, xp, fp, left=0, right=0) for an array x
interp_array_zero(x, xp, fp) ==
    [i \in 1..Len(x) |-> interp_lr(x[i], xp, NdArray(fp), R(0), R(0)).v]

setControlGains(turbine_string) ==
    IF turbine_string = T10
    THEN /\ kp_0' = PyFloat(Q(179, 1000))
         /\ ki_0' = PyFloat(Q(165, 10000))
         /\ k_float' = R(2)
         /\ ret' = [op |-> "setControlGains", status |-> "returned"]
         /\ UNCHANGED <<Uhub, Omega_rpm, pitch_deg, I_drivetrain, rot_from_weis,
                        V, w, outputs, J>>
    ELSE IF turbine_string = T15
    THEN IF ~rot_from_weis.attr
         THEN /\ ret' = [op |-> "setControlGains", status |-> "raised",
                         exc |-> "AttributeError"]
              /\ UNCHANGED <<Uhub, Omega_rpm, pitch_deg, I_drivetrain, rot_from_weis,
                             kp_0, ki_0, k_float, V, w, outputs, J>>
         ELSE LET pc == rot_from_weis.d.pitch_control
                  pc_angles == Scale(pc.GS_Angles, rad2deg)
              IN  /\ kp_0' = NdArray(interp_array_zero(pitch_deg, pc_angles, pc.GS_Kp))
                  /\ ki_0' = NdArray(interp_array_zero(pitch_deg, pc_angles, pc.GS_Ki))
                  /\ k_float' = R(9)
                  /\ ret' = [op |-> "setControlGains", status |-> "returned"]
                  /\ UNCHANGED <<Uhub, Omega_rpm, pitch_deg, I_drivetrain,
                                 rot_from_weis, V, w, outputs, J>>
    ELSE /\ ret' = [op |-> "setControlGains", status |-> "returned"]
         /\ UNCHANGED <<Uhub, Omega_rpm, pitch_deg, I_drivetrain, rot_from_weis,
                        kp_0, ki_0, k_float, V, w, outputs, J>>

\* the driver's assignment rr.V = Uinf
SetV(Uinf_) ==
    /\ V' = Uinf_
    /\ ret' = [op |-> "SetV", status |-> "returned"]
    /\ UNCHANGED <<Uhub, Omega_rpm, pitch_deg, I_drivetrain, rot_from_weis,
                   kp_0, ki_0, k_float, w, outputs, J>>

(***************************************************************************)
(* Rotor.calcAeroServoContributions                                        *)
(***************************************************************************)
\* mutant of Denominator: the inertia term I*omega^2 is left out
Denominator_NoInertia(I, dQ_dOm, dQ_dPi, kp_U, ki_U, omega) ==
    cadd(cmul(cmul(CxOfReal(fadd(dQ_dOm, fmul(kp_U, dQ_dPi))), ImagUnit),
              CxOfReal(omega)),
         CxOfReal(fmul(ki_U, dQ_dPi)))

\* Denominator of control transfer function
Denominator(I, dQ_dOm, dQ_dPi, kp_U, ki_U, omega) ==
    cadd(cadd(CxOfReal(fmul(I, fmul(omega, omega))),
              cmul(cmul(CxOfReal(fadd(dQ_dOm, fmul(kp_U, dQ_dPi))), ImagUnit),
                   CxOfReal(omega))),
         CxOfReal(fmul(ki_U, dQ_dPi)))

\* control transfer function
ControlTF(dQ_dU, dQ_dPi, kf, omega, D) ==
    cdiv(cmul(cmul(ImagUnit, CxOfReal(omega)),
              CxOfReal(fsub(dQ_dU, fdiv(fmul(kf, dQ_dPi), Hhub)))),
         D)

\* mutant of AeroDamping: the rotor-speed feedback term through C is left out
AeroDamping_Uncoupled(dT_dU, dT_dOm, dT_dPi, kp_U, ki_U, kf, omega, C) ==
    cmul(cmul(ImagUnit, CxOfReal(omega)),
         CxOfReal(fsub(dT_dU, fdiv(fmul(kf, dT_dPi), Hhub))))

\* Complex aero damping
AeroDamping(dT_dU, dT_dOm, dT_dPi, kp_U, ki_U, kf, omega, C) ==
    csub(cmul(cmul(ImagUnit, CxOfReal(omega)),
              CxOfReal(fsub(dT_dU, fdiv(fmul(kf, dT_dPi), Hhub)))),
         cmul(cadd(cmul(cmul(CxOfReal(fadd(dT_dOm, fmul(kp_U, dT_dPi))), ImagUnit),
                        CxOfReal(omega)),
                   CxOfReal(fmul(ki_U, dT_dPi))),
              C))

\* mutant of a_aer_of: the minus sign is left out
a_aer_of_Unsigned(omega, T) == fmul(fdiv(R(1), fmul(omega, omega)), T.re)

a_aer_of(omega, T) == fmul(fneg(fdiv(R(1), fmul(omega, omega))), T.re)
b_aer_of(omega, T) == fmul(fdiv(R(1), omega), T.im)

\* the loop over enumerate(self.w): after iw iterations the arrays hold
\* their computed entries in 1..iw and the zeros they were created with after
RECURSIVE FrequencyLoop(_, _, _)
FrequencyLoop(l, grid, iw) ==
    IF iw = 0
    THEN [a_aer |-> zeros_like(grid), b_aer |-> zeros_like(grid),
          D |-> [i \in 1..Len(grid) |-> CxOfReal(R(0))],
          C |-> [i \in 1..Len(grid) |-> CxOfReal(R(0))],
          T |-> [i \in 1..Len(grid) |-> CxOfReal(R(0))]]
    ELSE LET prev == FrequencyLoop(l, grid, iw - 1)
             omega == grid[iw]
             D == Denominator(l.I_drivetrain, l.dQ_dOm, l.dQ_dPi, l.kp_U, l.ki_U, omega)
             C == ControlTF(l.dQ_dU, l.dQ_dPi, l.k_float, omega, D)
             T == AeroDamping(l.dT_dU, l.dT_dOm, l.dT_dPi, l.kp_U, l.ki_U,
                              l.k_float, omega, C)
         IN  [a_aer |-> [prev.a_aer EXCEPT ![iw] = a_aer_of(omega, T)],
              b_aer |-> [prev.b_aer EXCEPT ![iw] = b_aer_of(omega, T)],
              D |-> [prev.D EXCEPT ![iw] = D],
              C |-> [prev.C EXCEPT ![iw] = C],
              T |-> [prev.T EXCEPT ![iw] = T]]

\* the six derivatives and the two gains at self.V
ServoLookups ==
    [dT_dU  |-> interp(V, Uhub, NdArray(J.d[<<"T", "Uhub">>])),
     dT_dOm |-> interp(V, Uhub, NdArray(J.d[<<"T", "Omega_rpm">>])),
     dT_dPi |-> interp(V, Uhub, NdArray(J.d[<<"T", "pitch_deg">>])),
     dQ_dU  |-> interp(V, Uhub, NdArray(J.d[<<"Q", "Uhub">>])),
     dQ_dOm |-> interp(V, Uhub, NdArray(J.d[<<"Q", "Omega_rpm">>])),
     dQ_dPi |-> interp(V, Uhub, NdArray(J.d[<<"Q", "pitch_deg">>])),
     kp_U   |-> interp(V, Uhub, kp_0),
     ki_U   |-> interp(V, Uhub, ki_0)]

\* mutant of ServoLocals: the gains are taken over without the sign flip
ServoLocals_NoFlip(lk) ==
    [dT_dU  |-> lk.dT_dU.v,
     dT_dOm |-> fdiv(lk.dT_dOm.v, rpm2radps),
     dT_dPi |-> fmul(lk.dT_dPi.v, rad2deg),
     dQ_dU  |-> lk.dQ_dU.v,
     dQ_dOm |-> fdiv(lk.dQ_dOm.v, rpm2radps),
     dQ_dPi |-> fmul(lk.dQ_dPi.v, rad2deg),
     kp_U   |-> lk.kp_U.v,
     ki_U   |-> lk.ki_U.v,
     k_float |-> k_float,
     I_drivetrain |-> I_drivetrain]

ServoLocals(lk) ==
    [dT_dU  |-> lk.dT_dU.v,
     dT_dOm |-> fdiv(lk.dT_dOm.v, rpm2radps),
     dT_dPi |-> fmul(lk.dT_dPi.v, rad2deg),
     dQ_dU  |-> lk.dQ_dU.v,
     dQ_dOm |-> fdiv(lk.dQ_dOm.v, rpm2radps),
     dQ_dPi |-> fmul(lk.dQ_dPi.v, rad2deg),
     kp_U   |-> fneg(lk.kp_U.v),
     ki_U   |-> fneg(lk.ki_U.v),
     k_float |-> k_float,
     I_drivetrain |-> I_drivetrain]

\* Roots of characteristic equation: the polynomial handed to np.roots
CharPoly(l) ==
    <<fneg(l.I_drivetrain), fadd(l.dQ_dOm, fmul(l.kp_U, l.dQ_dPi)),
      fmul(l.ki_U, l.dQ_dPi)>>

\* mutant of AeroServoResult: without the derivative tables the call returns
\* the zero arrays it starts from instead of raising
AeroServoResult_NoTables ==
    IF ~J.attr
    THEN [op |-> "calcAeroServoContributions", status |-> "returned",
          a_aer |-> zeros_like(w), b_aer |-> zeros_like(w)]
    ELSE LET lk == ServoLookups
         IN  IF \E f \in DOMAIN lk : lk[f].raised # ""
             THEN [op |-> "calcAeroServoContributions", status |-> "raised",
                   exc |-> "ValueError"]
             ELSE LET l == ServoLocals(lk)
                      loop == FrequencyLoop(l, w, Len(w))
                  IN  [op |-> "calcAeroServoContributions", status |-> "returned",
                       a_aer |-> loop.a_aer, b_aer |-> loop.b_aer,
                       locals |-> l, p |-> CharPoly(l),
                       D |-> loop.D, C |-> loop.C, T |-> loop.T]

AeroServoResult ==
    IF ~J.attr
    THEN [op |-> "calcAeroServoContributions", status |-> "raised",
          exc |-> "AttributeError"]
    ELSE LET lk == ServoLookups
         IN  IF \E f \in DOMAIN lk : lk[f].raised # ""
             THEN [op |-> "calcAeroServoContributions", status |-> "raised",
                   exc |-> "ValueError"]
             ELSE LET l == ServoLocals(lk)
                      loop == FrequencyLoop(l, w, Len(w))
                  IN  [op |-> "calcAeroServoContributions", status |-> "returned",
                       a_aer |-> loop.a_aer, b_aer |-> loop.b_aer,
                       locals |-> l, p |-> CharPoly(l),
                       D |-> loop.D, C |-> loop.C, T |-> loop.T]

\* mutant of calcAeroServoContributions: the local Uinf = 14 is stored in V
calcAeroServoContributions_StoresV ==
    /\ ret' = AeroServoResult
    /\ V' = Uinf
    /\ UNCHANGED <<Uhub, Omega_rpm, pitch_deg, I_drivetrain, rot_from_weis,
                   kp_0, ki_0, k_float, w, outputs, J>>

calcAeroServoContributions ==
    /\ ret' = AeroServoResult
    /\ UNCHANGED <<Uhub, Omega_rpm, pitch_deg, I_drivetrain, rot_from_weis,
                   kp_0, ki_0, k_float, V, w, outputs, J>>

(***************************************************************************)
(* Rotor.calcAeroContributions                                             *)
(***************************************************************************)
\* np.zeros([6, n]), rows and columns numbered from 0 as in the program
zeros6(n) == [i \in 0..5 |-> [j \in 0..(n - 1) |-> R(0)]]

\* mutant of SurgeDamping: the derivative lands in the pitch-pitch entry
SurgeDamping_Pitch(B_aero, dT_dU) ==
    [B_aero EXCEPT ![4][4] = fadd(B_aero[4][4], dT_dU)]

\* B_aero[0,0] += dT_dU
SurgeDamping(B_aero, dT_dU) ==
    [B_aero EXCEPT ![0][0] = fadd(B_aero[0][0], dT_dU)]

\* the loop over range(nw), after its first n iterations
RECURSIVE ExcitationLoop(_, _, _, _)
ExcitationLoop(F_aero, U_amplitude, dT_dU, n) ==
    IF n = 0 THEN F_aero
    ELSE [ExcitationLoop(F_aero, U_amplitude, dT_dU, n - 1)
            EXCEPT ![0][n - 1] = fmul(U_amplitude[n], dT_dU)]

AeroResult(nw, U_amplitude) ==
    IF ~J.attr
    THEN [op |-> "calcAeroContributions", status |-> "raised",
          exc |-> "AttributeError"]
    ELSE LET dT_dU == interp(Uinf, Uhub, NdArray(J.d[<<"T", "Uhub">>])).v
             A_aero == zeros6(6)
             B_aero == SurgeDamping(zeros6(6), dT_dU)
             C_aero == zeros6(6)
             done == IF Len(U_amplitude) < nw THEN Len(U_amplitude) ELSE nw
             F_aero == ExcitationLoop(zeros6(nw), U_amplitude, dT_dU, done)
             built == [dT_dU |-> dT_dU, A_aero |-> A_aero, B_aero |-> B_aero,
                       C_aero |-> C_aero, F_aero |-> F_aero]
         IN  IF done < nw
             THEN [op |-> "calcAeroContributions", status |-> "raised",
                   exc |-> "IndexError", nw |-> nw, U_amplitude |-> U_amplitude,
                   locals |-> built]
             ELSE IF ~({"Fhub", "Mhub"} \subseteq DOMAIN outputs.d)
             THEN [op |-> "calcAeroContributions", status |-> "raised",
                   exc |-> "KeyError", nw |-> nw, U_amplitude |-> U_amplitude,
                   locals |-> built]
             ELSE [op |-> "calcAeroContributions", status |-> "returned",
                   nw |-> nw, U_amplitude |-> U_amplitude, locals |-> built,
                   F_aero0 |-> outputs.d["Fhub"] \o outputs.d["Mhub"]]

calcAeroContributions(nw, U_amplitude) ==
    /\ ret' = AeroResult(nw, U_amplitude)
    /\ UNCHANGED <<Uhub, Omega_rpm, pitch_deg, I_drivetrain, rot_from_weis,
                   kp_0, ki_0, k_float, V, w, outputs, J>>

\* the amplitude arrays a caller passes
Amplitudes ==
    { [i \in 1..n |-> R(i + o)] : n \in 0..MaxNw, o \in {0, 1} }

(***************************************************************************)
(* The Rotor object under any sequence of calls                            *)
(***************************************************************************)
Next ==
    \/ runCCblade
    \/ \E turbine_string \in {T10, T15, "NREL-5MW"} : setControlGains(turbine_string)
    \/ \E Uinf_ \in SweepV : SetV(Uinf_)
    \/ calcAeroServoContributions
    \/ \E nw \in 0..MaxNw, U_amplitude \in Amplitudes :
          calcAeroContributions(nw, U_amplitude)

Spec == Init /\ [][Next]_vars

(***************************************************************************)
(* calcAeroServoContributions as a function of the fields it reads: the    *)
(* schedule, the derivative tables, the gains, k_float, the inertia, the   *)
(* wind speed V and the frequency grid w, each drawn from a bounded set    *)
(***************************************************************************)
ServoSchedule == <<R(10), R(14), R(18)>>

ServoGains ==
    { NdArray(<<R(0), R(0), R(0)>>), NdArray(<<Q(-3, 50), Q(-3, 50), Q(-6, 50)>>) }

ServoGrids == { <<Q(1, 2), R(1)>>, <<R(1), R(2)>>, <<R(0), R(1)>> }

ServoInit ==
    /\ Uhub = ServoSchedule
    /\ Omega_rpm = <<R(5), R(8), R(8)>>
    /\ pitch_deg = <<R(0), R(8), R(14)>>
    /\ rot_from_weis = NoAttr
    /\ I_drivetrain \in { R(0), R(1), R(2) }
    /\ kp_0 \in ServoGains
    /\ ki_0 \in ServoGains
    /\ k_float \in { R(0), R(9) }
    /\ V \in { R(12), R(24) }
    /\ w \in ServoGrids
    /\ \E res \in SolverResultsWith(Len(ServoSchedule), { <<R(5), R(6), R(7)>> },
                                   { <<R(0), R(0), R(0)>>, <<R(-1), R(-2), R(-3)>> }) :
          /\ outputs = Attr([key \in {"P", "CP"} |->
                               IF key = "P" THEN res.loads.P ELSE res.loads.CP])
          /\ J = Attr([key \in { <<"Q", "Uhub">>, <<"Q", "pitch_deg">>,
                                 <<"Q", "Omega_rpm">>, <<"T", "Uhub">>,
                                 <<"T", "pitch_deg">>, <<"T", "Omega_rpm">> } |->
                CASE key = <<"Q", "Uhub">> -> res.dQ.dUinf
                  [] key = <<"Q", "pitch_deg">> -> res.dQ.dpitch
                  [] key = <<"Q", "Omega_rpm">> -> res.dQ.dOmega
                  [] key = <<"T", "Uhub">> -> res.dT.dUinf
                  [] key = <<"T", "pitch_deg">> -> res.dT.dpitch
                  [] key = <<"T", "Omega_rpm">> -> res.dT.dOmega])
    /\ ret = [op |-> "inputs", status |-> "returned"]

ServoNext == calcAeroServoContributions

SpecServo == ServoInit /\ [][ServoNext]_vars

(***************************************************************************)
(* Properties of calcAeroServoContributions, checked under SpecServo       *)
(***************************************************************************)
ServoCalled == ret.op = "calcAeroServoContributions"
ServoReturned == ServoCalled /\ ret.status = "returned"

\* the quantities of the spec's formulas, read from the fields of the Rotor
TableAt(key) == interp(V, Uhub, NdArray(J.d[key])).v
The_dT_dU == TableAt(<<"T", "Uhub">>)
The_dT_dOm == fdiv(TableAt(<<"T", "Omega_rpm">>), rpm2radps)
The_dT_dPi == fmul(TableAt(<<"T", "pitch_deg">>), rad2deg)
The_dQ_dU == TableAt(<<"Q", "Uhub">>)
The_dQ_dOm == fdiv(TableAt(<<"Q", "Omega_rpm">>), rpm2radps)
The_dQ_dPi == fmul(TableAt(<<"Q", "pitch_deg">>), rad2deg)
The_Kp == fneg(interp(V, Uhub, kp_0).v)
The_Ki == fneg(interp(V, Uhub, ki_0).v)

\* D(w) = I*w^2 + (dQ/dOmega + Kp*dQ/dpitch)*i*w + Ki*dQ/dpitch
The_D(omega) ==
    Cx(fadd(fmul(I_drivetrain, fmul(omega, omega)), fmul(The_Ki, The_dQ_dPi)),
       fmul(omega, fadd(The_dQ_dOm, fmul(The_Kp, The_dQ_dPi))))

CxZero == Cx(R(0), R(0))

\* the T(w) that the returned a(w), b(w) stand for:
\* a = -Re(T)/w^2 and b = Im(T)/w, for w # 0
T_of(iw) ==
    Cx(fneg(fmul(ret.a_aer[iw], fmul(w[iw], w[iw]))), fmul(ret.b_aer[iw], w[iw]))

OpenLoop ==
    /\ k_float = R(0)
    /\ kp_0 = NdArray(zeros_like(Uhub))
    /\ ki_0 = NdArray(zeros_like(Uhub))

\* C1 as claimed: with k_float = 0 and Kp = Ki = 0, a(w) = 0 and b(w) = dT/dU
\* at every (positive) grid frequency, whatever the other derivatives and the
\* (positive) inertia are.
C1_OpenLoopIsRigid ==
    (ServoReturned /\ OpenLoop /\ I_drivetrain.n > 0) =>
        \A iw \in 1..Len(w) :
            w[iw].n > 0 => (ret.a_aer[iw] = R(0) /\ ret.b_aer[iw] = The_dT_dU)

\* C1 as amended: with k_float = 0 and Kp = Ki = 0, at every grid frequency
\* w # 0 with D(w) # 0, T(w) = i*w*dT/dU + w^2*dT/dOmega*dQ/dU / D(w); so
\* a(w) = 0 and b(w) = dT/dU hold exactly when dT/dOmega = 0 or dQ/dU = 0.
C1_OpenLoopCoupling ==
    (ServoReturned /\ OpenLoop) =>
        \A iw \in 1..Len(w) :
            (w[iw].n # 0 /\ The_D(w[iw]) # CxZero) =>
                /\ cmul(csub(T_of(iw), Cx(R(0), fmul(w[iw], The_dT_dU))), The_D(w[iw]))
                     = CxOfReal(fmul(fmul(w[iw], w[iw]), fmul(The_dT_dOm, The_dQ_dU)))
                /\ (ret.a_aer[iw] = R(0) /\ ret.b_aer[iw] = The_dT_dU)
                     <=> (IsZero(The_dT_dOm) \/ IsZero(The_dQ_dU))

\* C1 witness: an open-loop evaluation whose rotor-speed coupling is active
C1_Witness ==
    /\ ServoReturned /\ OpenLoop /\ I_drivetrain.n > 0
    /\ ~IsZero(The_dT_dOm) /\ ~IsZero(The_dQ_dU)
    /\ \E iw \in 1..Len(w) : w[iw].n > 0 /\ IsFinite(ret.a_aer[iw])
                              /\ ret.a_aer[iw] # R(0)

\* C2: the returned arrays have one entry per grid frequency, in grid order,
\* and entry iw is a = -Re(T)/w^2, b = Im(T)/w for the spec's T(w), C(w), D(w)
\* at w = w[iw], built from the six derivatives interpolated at V with their
\* unit conversions; where the formula divides by zero (w = 0 or D(w) = 0)
\* the entry is nan.  Stated without division: T*D = i*w*XT*D - (P*i*w + R)*i*w*XQ.
C2_ClosedForm ==
    ServoReturned =>
        /\ Len(ret.a_aer) = Len(w)
        /\ Len(ret.b_aer) = Len(w)
        /\ \A iw \in 1..Len(w) :
              LET omega == w[iw]
                  XQ == fsub(The_dQ_dU, fdiv(fmul(k_float, The_dQ_dPi), Hhub))
                  XT == fsub(The_dT_dU, fdiv(fmul(k_float, The_dT_dPi), Hhub))
                  P == fadd(The_dT_dOm, fmul(The_Kp, The_dT_dPi))
                  Rr == fmul(The_Ki, The_dT_dPi)
              IN  IF omega.n = 0 \/ The_D(omega) = CxZero
                  THEN ret.a_aer[iw] = NaN /\ ret.b_aer[iw] = NaN
                  ELSE cmul(T_of(iw), The_D(omega))
                         = csub(cmul(Cx(R(0), fmul(omega, XT)), The_D(omega)),
                                cmul(Cx(Rr, fmul(omega, P)), Cx(R(0), fmul(omega, XQ))))

\* C2 witness: a closed-loop evaluation with every term of the formula active
C2_Witness ==
    /\ ServoReturned
    /\ k_float = R(9)
    /\ ~IsZero(The_Kp) /\ ~IsZero(The_Ki)
    /\ ~IsZero(The_dT_dOm) /\ ~IsZero(The_dQ_dU) /\ ~IsZero(The_dQ_dOm)
    /\ w = <<R(1), R(2)>>
    /\ IsFinite(ret.a_aer[2]) /\ ret.a_aer[2] # R(0) /\ ret.a_aer[1] # ret.a_aer[2]

\* C3 as claimed: for every strictly positive frequency (and positive inertia)
\* the returned a(w), b(w) are finite.
C3_FiniteForPositive ==
    (ServoReturned /\ I_drivetrain.n > 0) =>
        \A iw \in 1..Len(w) :
            w[iw].n > 0 => (IsFinite(ret.a_aer[iw]) /\ IsFinite(ret.b_aer[iw]))

\* C3 as amended: for every strictly positive frequency the returned a(w), b(w)
\* are finite exactly when D(w) # 0.
C3_FiniteIffDenominator ==
    ServoReturned =>
        \A iw \in 1..Len(w) :
            w[iw].n > 0 =>
                ((IsFinite(ret.a_aer[iw]) /\ IsFinite(ret.b_aer[iw]))
                    <=> The_D(w[iw]) # CxZero)

\* C3 witness: a positive frequency and a positive inertia at which D(w) = 0
C3_Witness ==
    /\ ServoReturned /\ I_drivetrain.n > 0
    /\ \E iw \in 1..Len(w) :
          w[iw].n > 0 /\ The_D(w[iw]) = CxZero /\ ret.a_aer[iw] = NaN

\* C4: a call on a grid that contains the frequency 0 is rejected (raises)
\* instead of returning arrays.
C4_ZeroFrequencyRejected ==
    (ServoCalled /\ \E iw \in 1..Len(w) : IsZero(w[iw])) => ret.status = "raised"

(***************************************************************************)
(* Properties of the Rotor object, checked under Spec                      *)
(***************************************************************************)
\* calcAeroContributions was called after runCCblade with an amplitude array
\* that has an entry for each of the nw frequency components
AeroCalled ==
    /\ ret.op = "calcAeroContributions"
    /\ J.attr
    /\ Len(ret.U_amplitude) >= ret.nw

\* C5: calcAeroContributions called after runCCblade completes without a fault
\* and returns, as steady load, the hub force followed by the hub moment that
\* the solver run stored.
C5_SteadyLoadReturned ==
    AeroCalled =>
        /\ ret.status = "returned"
        /\ ret.F_aero0 = outputs.d["Fhub"] \o outputs.d["Mhub"]

\* C6: the thrust derivative that calcAeroContributions places in damping[0,0]
\* is dT/dU interpolated at the Rotor's current wind speed V.
C6_DampingAtCurrentWindSpeed ==
    AeroCalled =>
        ret.locals.B_aero[0][0] = interp(V, Uhub, NdArray(J.d[<<"T", "Uhub">>])).v

\* C7: with d the thrust derivative interpolated by the call, the matrices
\* built by calcAeroContributions are: added mass and stiffness all zero,
\* damping zero except damping[0,0] = d, excitation spectrum of shape 6 x nw
\* with row 0 equal to amplitude[k]*d and rows 1..5 zero.
C7_MatricesBuilt ==
    AeroCalled =>
        LET l == ret.locals
            d == l.dT_dU
        IN  /\ \A i, j \in 0..5 : l.A_aero[i][j] = R(0) /\ l.C_aero[i][j] = R(0)
            /\ \A i, j \in 0..5 :
                  l.B_aero[i][j] = (IF i = 0 /\ j = 0 THEN d ELSE R(0))
            /\ DOMAIN l.F_aero = 0..5
            /\ \A i \in 0..5 :
                  /\ DOMAIN l.F_aero[i] = 0..(ret.nw - 1)
                  /\ \A k \in 0..(ret.nw - 1) :
                        l.F_aero[i][k] =
                            (IF i = 0 THEN fmul(ret.U_amplitude[k + 1], d) ELSE R(0))

\* C7 witness: the spec's scenario, nw = 2, amplitude = [1, 2], d = 600
C7_Witness ==
    /\ AeroCalled
    /\ ret.nw = 2
    /\ ret.U_amplitude = <<R(1), R(2)>>
    /\ ret.locals.dT_dU = R(600)
    /\ ret.locals.F_aero[0][1] = R(1200)

\* C8: when V lies outside the schedule's wind-speed axis, the evaluation
\* completes and every derivative and both gains it uses are the table values
\* at the nearest end point of the schedule (with their unit conversion and
\* sign), not an extrapolation.
C8_ClampedAndCompletes ==
    (ServoCalled /\ J.attr /\ (flt(V, Uhub[1]) \/ flt(Uhub[Len(Uhub)], V))) =>
        LET e == IF flt(V, Uhub[1]) THEN 1 ELSE Len(Uhub)
        IN  /\ ret.status = "returned"
            /\ ret.locals.dT_dU = J.d[<<"T", "Uhub">>][e]
            /\ ret.locals.dT_dOm = fdiv(J.d[<<"T", "Omega_rpm">>][e], rpm2radps)
            /\ ret.locals.dT_dPi = fmul(J.d[<<"T", "pitch_deg">>][e], rad2deg)
            /\ ret.locals.dQ_dU = J.d[<<"Q", "Uhub">>][e]
            /\ ret.locals.dQ_dOm = fdiv(J.d[<<"Q", "Omega_rpm">>][e], rpm2radps)
            /\ ret.locals.dQ_dPi = fmul(J.d[<<"Q", "pitch_deg">>][e], rad2deg)
            /\ ret.locals.kp_U = fneg(kp_0.v[e])
            /\ ret.locals.ki_U = fneg(ki_0.v[e])

\* C8 restricted to the states in which both gain fields hold arrays: there
\* the end-point values are used and the evaluation completes.
C8_ClampedWhenGainsAreArrays ==
    (kp_0.kind = "ndarray" /\ ki_0.kind = "ndarray") => C8_ClampedAndCompletes

\* C9: on the fixed-gain turbine, after setControlGains, the aero-servo
\* linearisation completes at every wind speed and uses Kp = -0.179 and
\* Ki = -0.0165, the constants with the sign flipped.
C9_FixedGainsConsumed ==
    (ServoCalled /\ J.attr /\ ~rot_from_weis.attr
        /\ kp_0 = PyFloat(Q(179, 1000)) /\ ki_0 = PyFloat(Q(165, 10000))) =>
        /\ ret.status = "returned"
        /\ ret.locals.kp_U = Q(-179, 1000)
        /\ ret.locals.ki_U = Q(-165, 10000)

\* C10: in every reachable state the schedule arrays Uhub, Omega_rpm, pitch_deg
\* and the gain arrays kp_0, ki_0 are arrays of one common length.
C10_ScheduleArraysAligned ==
    /\ Len(Omega_rpm) = Len(Uhub)
    /\ Len(pitch_deg) = Len(Uhub)
    /\ kp_0.kind = "ndarray" /\ Len(kp_0.v) = Len(Uhub)
    /\ ki_0.kind = "ndarray" /\ Len(ki_0.v) = Len(Uhub)

\* the scheduled gains are in force: only setControlGains('IEA-15-240-RWT')
\* on a Rotor that loaded the WEIS yaml sets k_float to 9
ScheduledGainsSet == rot_from_weis.attr /\ k_float = R(9)

\* g is the value at pitch p of the piecewise-linear function through the
\* points (angles[i], table[i]), and 0 strictly outside the angles; stated
\* segment by segment, without division
OnGainCurve(p, g, angles, table) ==
    IF flt(p, angles[1]) \/ flt(angles[Len(angles)], p)
    THEN g = R(0)
    ELSE \E i \in 1..(Len(angles) - 1) :
            /\ fge(p, angles[i]) /\ fge(angles[i + 1], p)
            /\ fmul(fsub(g, table[i]), fsub(angles[i + 1], angles[i]))
                 = fmul(fsub(table[i + 1], table[i]), fsub(p, angles[i]))

\* C11: after setControlGains in Mode B, with the gain-schedule angles
\* converted from radians to degrees, kp_0[j] and ki_0[j] are for every
\* schedule index j the piecewise-linear interpolation of GS_Kp, GS_Ki at
\* pitch_deg[j], and exactly 0 where pitch_deg[j] is strictly below the first
\* or strictly above the last gain-schedule angle.
C11_ScheduledGains ==
    ScheduledGainsSet =>
        LET pc == rot_from_weis.d.pitch_control
            deg == [i \in 1..Len(pc.GS_Angles) |-> fmul(pc.GS_Angles[i], rad2deg)]
        IN  /\ kp_0.kind = "ndarray" /\ Len(kp_0.v) = Len(pitch_deg)
            /\ ki_0.kind = "ndarray" /\ Len(ki_0.v) = Len(pitch_deg)
            /\ \A j \in 1..Len(pitch_deg) :
                  /\ OnGainCurve(pitch_deg[j], kp_0.v[j], deg, pc.GS_Kp)
                  /\ OnGainCurve(pitch_deg[j], ki_0.v[j], deg, pc.GS_Ki)

\* C11 witness: scheduled gains with one schedule pitch strictly outside the
\* gain-schedule angles (gain 0 although the end value of the table is not 0)
\* and one strictly between two angles (a gain between the two table values)
C11_Witness ==
    /\ ScheduledGainsSet
    /\ ret.op = "setControlGains"
    /\ LET pc == rot_from_weis.d.pitch_control
           deg == [i \in 1..Len(pc.GS_Angles) |-> fmul(pc.GS_Angles[i], rad2deg)]
       IN  /\ \E j \in 1..Len(pitch_deg) :
                 /\ flt(pitch_deg[j], deg[1]) \/ flt(deg[Len(deg)], pitch_deg[j])
                 /\ kp_0.v[j] = R(0) /\ ki_0.v[j] = R(0)
                 /\ pc.GS_Kp[1] # R(0) /\ pc.GS_Kp[Len(deg)] # R(0)
           /\ \E j \in 1..Len(pitch_deg), i \in 1..(Len(deg) - 1) :
                 /\ flt(deg[i], pitch_deg[j]) /\ flt(pitch_deg[j], deg[i + 1])
                 /\ flt(kp_0.v[j], pc.GS_Kp[i]) /\ flt(pc.GS_Kp[i + 1], kp_0.v[j])

\* i*w*x for real w and x
IOmega(omega, x) == Cx(R(0), fmul(omega, x))

\* C12: in every evaluation that returns, the Kp and Ki that enter D(w) and
\* T(w) are minus the stored gains kp_0, ki_0 interpolated at V (one sign flip
\* after the interpolation, none in setControlGains: at a schedule wind speed
\* minus Kp, minus Ki lie on the external gain curves), and k_float enters
\* C(w) and T(w) as the stored scalar, unnegated.
C12_SignFlippedOnce ==
    ServoReturned =>
        LET Kp == fneg(interp(V, Uhub, kp_0).v)
            Ki == fneg(interp(V, Uhub, ki_0).v)
        IN  /\ ret.locals.kp_U = Kp /\ ret.locals.ki_U = Ki
            /\ ret.locals.k_float = k_float
            /\ \A iw \in 1..Len(w) :
                  LET omega == w[iw]
                  IN  /\ ret.D[iw] =
                           Cx(fadd(fmul(I_drivetrain, fmul(omega, omega)),
                                   fmul(Ki, The_dQ_dPi)),
                              fmul(omega, fadd(The_dQ_dOm, fmul(Kp, The_dQ_dPi))))
                      /\ (omega.n # 0 /\ ret.D[iw] # CxZero) =>
                            cmul(ret.C[iw], ret.D[iw]) =
                              IOmega(omega, fsub(The_dQ_dU,
                                       fdiv(fmul(k_float, The_dQ_dPi), Hhub)))
                      /\ ret.T[iw] =
                           csub(IOmega(omega, fsub(The_dT_dU,
                                         fdiv(fmul(k_float, The_dT_dPi), Hhub))),
                                cmul(Cx(fmul(Ki, The_dT_dPi),
                                        fmul(omega, fadd(The_dT_dOm,
                                                         fmul(Kp, The_dT_dPi)))),
                                     ret.C[iw]))
            /\ ScheduledGainsSet =>
                  LET pc == rot_from_weis.d.pitch_control
                      deg == [i \in 1..Len(pc.GS_Angles) |->
                                 fmul(pc.GS_Angles[i], rad2deg)]
                  IN  \A j \in 1..Len(Uhub) :
                         V = Uhub[j] =>
                            /\ OnGainCurve(pitch_deg[j], fneg(Kp), deg, pc.GS_Kp)
                            /\ OnGainCurve(pitch_deg[j], fneg(Ki), deg, pc.GS_Ki)

\* C12 witness: an evaluation at a schedule wind speed with scheduled gains,
\* where the external table has Kp, Ki < 0 and the Kp, Ki that entered D(w)
\* are > 0, and k_float = 9 entered
C12_Witness ==
    /\ ServoReturned /\ ScheduledGainsSet
    /\ \E j \in 1..Len(Uhub) :
          /\ V = Uhub[j]
          /\ kp_0.v[j].n < 0 /\ ki_0.v[j].n < 0
          /\ ret.locals.kp_U = fneg(kp_0.v[j]) /\ ret.locals.ki_U = fneg(ki_0.v[j])
    /\ ret.locals.k_float = R(9)
    /\ \E iw \in 1..Len(w) : IsFinite(ret.D[iw].re) /\ ret.D[iw].im.n # 0

\* the fields of the Rotor
Fields == <<Uhub, Omega_rpm, pitch_deg, I_drivetrain, rot_from_weis,
            kp_0, ki_0, k_float, V, w, outputs, J>>

\* C13: a call of calcAeroServoContributions leaves every field of the Rotor
\* (V, w, Uhub, Omega_rpm, pitch_deg, J, kp_0, ki_0, k_float, I_drivetrain,
\* and rot_from_weis, outputs) unchanged, and its outcome, the returned
\* (a, b) included, is the function of the fields at the time of the call:
\* it depends on the V of that moment and on no earlier call or earlier V.
C13_ReadOnly ==
    [][ret'.op = "calcAeroServoContributions" =>
          (UNCHANGED Fields /\ ret' = AeroServoResult)]_vars

\* C13 witness: in a sweep, an evaluation that returned after V was
\* reassigned away from a schedule wind speed, using the derivative at the
\* new V and not the one at the V of construction
C13_Witness ==
    /\ ServoReturned
    /\ V = R(12)
    /\ ret.locals.dT_dU = TableAt(<<"T", "Uhub">>)
    /\ ret.locals.dT_dU # interp(R(14), Uhub, NdArray(J.d[<<"T", "Uhub">>])).v
    /\ Len(ret.a_aer) = Len(w) /\ IsFinite(ret.a_aer[1])

\* a call of one of the two linearisation methods
LinearisationCalled ==
    ret.op \in {"calcAeroContributions", "calcAeroServoContributions"}

\* the keys runCCblade writes
OutputKeys == {"P", "CP"}
JKeys == { <<"P", "r">>,
           <<"Q", "Uhub">>, <<"Q", "pitch_deg">>, <<"Q", "Omega_rpm">>,
           <<"T", "Uhub">>, <<"T", "pitch_deg">>, <<"T", "Omega_rpm">> }

\* a linearisation call made while J does not exist fails and returns no
\* arrays; one that returned was made while J exists
FailsWithoutTables ==
    LinearisationCalled =>
        /\ (~J.attr) =>
              /\ ret.status = "raised"
              /\ ret.exc = "AttributeError"
              /\ DOMAIN ret \cap {"a_aer", "b_aer", "F_aero0", "locals"} = {}
        /\ (ret.status = "returned") => J.attr

\* outputs and J change only in a step of runCCblade, and they never go back
\* to not existing
TablesOnlyByRun ==
    /\ (J' # J \/ outputs' # outputs) => ret'.op = "runCCblade"
    /\ J.attr => J'.attr
    /\ outputs.attr => outputs'.attr

\* a step of runCCblade leaves outputs and J holding exactly the keys it
\* writes, all with the values of one solver run
ReplacedWholesale ==
    ret'.op = "runCCblade" =>
        /\ J'.attr
        /\ outputs'.attr
        /\ DOMAIN outputs'.d = OutputKeys
        /\ DOMAIN J'.d = JKeys
        /\ \E res \in SolverResults(Len(Uhub)) :
              /\ outputs'.d["P"] = res.loads.P
              /\ outputs'.d["CP"] = res.loads.CP
              /\ J'.d[<<"P", "r">>] = res.dP.dr
              /\ J'.d[<<"Q", "Uhub">>] = res.dQ.dUinf
              /\ J'.d[<<"Q", "pitch_deg">>] = res.dQ.dpitch
              /\ J'.d[<<"Q", "Omega_rpm">>] = res.dQ.dOmega
              /\ J'.d[<<"T", "Uhub">>] = res.dT.dUinf
              /\ J'.d[<<"T", "pitch_deg">>] = res.dT.dpitch
              /\ J'.d[<<"T", "Omega_rpm">>] = res.dT.dOmega

\* C14: a constructed Rotor has no outputs and no J; they come into
\* existence only by a runCCblade and stay; a linearisation call made while
\* J does not exist fails with AttributeError and returns no arrays, so a
\* linearisation call returns a result only after a runCCblade has completed;
\* and every runCCblade replaces outputs and J wholesale.
C14_CallOrder ==
    /\ ~J.attr
    /\ ~outputs.attr
    /\ []FailsWithoutTables
    /\ [][TablesOnlyByRun /\ ReplacedWholesale]_vars

\* C14 witness: calcAeroServoContributions invoked on a constructed Rotor
\* before any runCCblade, after the gains were set and V was assigned
C14_Witness ==
    /\ ServoCalled
    /\ ~J.attr /\ ~outputs.attr
    /\ k_float # R(0) /\ V # R(14)
    /\ ret.status = "raised" /\ ret.exc = "AttributeError"

====
